---- MODULE Spec2Model ----
(***************************************************************************)
(* Customer synchronisation of the wetarseel Shopify app.                  *)
(*                                                                         *)
(* Two route actions forward Shopify customers to an external API:         *)
(*   - the paginated action (batches of BATCH_SIZE, a while loop over      *)
(*     hasNextPage), and                                                   *)
(*   - the single-page action of app/routes/app.customers.tsx (one query   *)
(*     for the first 50 customers, one POST).                              *)
(* One run of one of the two actions is modelled, split at its awaits:     *)
(* the credential lookup, each GraphQL page fetch and each POST to the     *)
(* external API.  The environment (the session table, the Shopify          *)
(* customer list, the answers of Shopify and of the external API) is       *)
(* chosen nondeterministically.                                            *)
(***************************************************************************)
EXTENDS Integers, Sequences, FiniteSets, TLC

\* ---------------------------------------------------------------- bounds
\* Largest number of customers of the shop.
MaxCustomers == 120
\* Cap on the iterations of the while loop explored by the model checker.
MaxBatches == 4
\* Largest idle time, in minutes, of a checkout delivered to the webhook.
MaxMinutes == 61
\* Number of webhook deliveries explored.
MaxDeliveries == 3

\* ---------------------------------------------------- program constants
BATCH_SIZE == 50
SINGLE_PAGE_FIRST == 50
ABANDONMENT_THRESHOLD_MINUTES == 60

\* ------------------------------------------------------- value domains
\* Session rows the authenticated request may belong to.
SessionIds == {"s1", "s2"}
\* SQL NULL in the apiKey column.
NullKey == "NULL"
Keys == {"k1", "k2"}
ApiKeyValues == {NullKey, ""} \cup Keys
\* HTTP statuses the external API may answer with.
StatusCodes == {200, 201, 404, 500}
\* The JS values the variable hasNextPage takes.
JsTrue == "true"
JsFalse == "false"
JsUndefined == "undefined"
\* A missing property of a returned JSON object.
Absent == -1
\* cursor: <<>> is null, <<i>> is the cursor of the i-th customer.
NullCursor == <<>>

VARIABLES
    sessions,      \* Session table: session id -> [shop, apiKey]
    custCount,     \* number of customers of the shop (static source)
    srcKind,       \* "static": consistent pageInfo; "emptyMore": zero rows, hasNextPage true
    route,         \* "paginated" | "single": which action serves the request
    sid,           \* session.id of the authenticated request
    pc,            \* position of the action
    apiKey,        \* const apiKey
    hasNextPage,   \* let hasNextPage
    cursor,        \* let cursor
    allCustomers,  \* let allCustomers
    batchNumber,   \* let batchNumber
    customers,     \* const customers (current page)
    pageInfo,      \* responseJson.data.customers.pageInfo of the current page
    fetchLog,      \* GraphQL queries issued, with their outcome
    dispatchLog,   \* POSTs to the external API issued, with their outcome
    result,        \* the JSON the action returned
    hook,          \* the abandoned-checkout webhook handler (one delivery at a time)
    runs,          \* concurrent runs of the paginated action: run id -> locals
    shopCount,     \* concurrent runs: shop -> number of customers
    save,          \* validating save_api_key action: the request's locals
    lastSaved      \* shop -> session id and key of the last UPDATE that was executed

syncVars == <<custCount, srcKind, route, sid, pc, apiKey, hasNextPage,
              cursor, allCustomers, batchNumber, customers, pageInfo, fetchLog,
              dispatchLog, result>>

vars == <<sessions, custCount, srcKind, route, sid, pc, apiKey, hasNextPage,
          cursor, allCustomers, batchNumber, customers, pageInfo, fetchLog,
          dispatchLog, result, hook, runs, shopCount, save, lastSaved>>

\* ------------------------------------------------------------- helpers
Min(a, b) == IF a < b THEN a ELSE b

\* The shop's customers in source order; customer i is the integer i.
Source(n) == [i \in 1..n |-> i]

CursorPos(c) == IF c = NullCursor THEN 0 ELSE c[1]

\* customers(first: $first, after: $after) of the Shopify Admin API on a
\* static customer list of n records.
StaticPage(n, after, first) ==
    LET from == CursorPos(after)
        to   == Min(from + first, n)
    IN  [records |-> SubSeq(Source(n), from + 1, to),
         pageInfo |-> [hasNextPage |-> to < n,
                       endCursor |-> IF to > from THEN <<to>> ELSE NullCursor]]

\* A source that signals more pages while returning zero rows.
EmptyMorePage ==
    [records |-> <<>>,
     pageInfo |-> [hasNextPage |-> TRUE, endCursor |-> NullCursor]]

QueryPage(kind, n, after, first) ==
    IF kind = "static" THEN StaticPage(n, after, first) ELSE EmptyMorePage

\* const apiKey = sessionData?.apiKey || "";
ApiKeyOf(row) == IF row.apiKey = NullKey THEN "" ELSE row.apiKey

\* if (!apiKey) is not taken
HasApiKeyNullOnly(k) == k # NullKey
HasApiKey(k) == k # ""

\* externalApiResponse.ok
ResponseOkBelow500(status) == status < 500
ResponseOk200Only(status) == status = 200
ResponseOk(status) == status >= 200 /\ status <= 299

\* truthiness of the loop variable in while (hasNextPage)
Truthy(v) == v = JsTrue

\* hasNextPage = responseJson.data.customers.pageInfo.hasNextpage;
\* the response has no property of that name.
ReadHasNextPageField(info) == IF info.hasNextPage THEN JsTrue ELSE JsFalse
ReadHasNextpage(info) == JsUndefined

\* // cursor = responseJson.data.customers.pageInfo.endCursor;  (commented out)
CursorAfterBatch(cur, info) == cur

\* ------------------------------------------------------------- results
Message(kind, n) == [kind |-> kind, n |-> n]

NoApiKeyResult ==
    [success |-> FALSE,
     message |-> Message("API key is not configured", Absent),
     customers |-> <<>>, totalCustomers |-> Absent, totalBatches |-> Absent]

\* the catch block: error.message, customers: []
CatchResultSuccess(msg) ==
    [success |-> TRUE, message |-> msg,
     customers |-> <<>>, totalCustomers |-> Absent, totalBatches |-> Absent]
CatchResultNoMessage(msg) ==
    [success |-> FALSE, message |-> Message("An unknown error occurred", Absent),
     customers |-> <<>>, totalCustomers |-> Absent, totalBatches |-> Absent]
CatchResult(msg) ==
    [success |-> FALSE, message |-> msg,
     customers |-> <<>>, totalCustomers |-> Absent, totalBatches |-> Absent]

\* the return after the while loop
PaginatedSuccess(all, batches) ==
    [success |-> TRUE,
     message |-> Message("Successfully synchronized", Len(all)),
     customers |-> all, totalCustomers |-> Len(all), totalBatches |-> batches]

\* the return of the single-page action
SingleSuccess(page) ==
    [success |-> TRUE,
     message |-> Message("Successfully synchronized", Len(page)),
     customers |-> page, totalCustomers |-> Absent, totalBatches |-> Absent]

NoResult ==
    [success |-> FALSE, message |-> Message("none", Absent),
     customers |-> <<>>, totalCustomers |-> Absent, totalBatches |-> Absent]

\* --------------------------------------- webhook handler, initial state
\* checkout.completed_at: null or a timestamp
NullTs == "null"
CompletedAtValues == {NullTs, "2024-01-01T00:00:00Z"}

NoSend == [auth |-> "", minutesIdle |-> <<>>, outcome |-> "none", status |-> Absent]

\* the POST to the abandoned-cart endpoint
Notification(key, minutes) ==
    [auth |-> key, minutesIdle |-> minutes, outcome |-> "pending", status |-> Absent]

HookIdle ==
    [pc |-> "idle",
     completedAt |-> NullTs, updatedAt |-> <<>>,
     minutesElapsed |-> <<>>,
     decision |-> "none",        \* branch taken: completed | notYet | abandoned
     apiKey |-> "",
     keyInRow |-> FALSE,         \* the row found holds a non-empty key
     sends |-> 0,                \* POSTs of this delivery
     send |-> NoSend,
     outcome |-> "none",         \* sent | rejected | networkError | skipped | lookupFailed
     errorLogged |-> FALSE,      \* console.error of the catch block
     skipLogged |-> FALSE,       \* console.log "No API key configured"
     response |-> Absent,        \* status of the Response returned
     deliveries |-> 0, acks |-> 0, totalSends |-> 0, totalDue |-> 0]

\* ---------------------------------------------------------------- Init
Init ==
    /\ sessions \in [SessionIds -> [shop : {"shopA"}, apiKey : ApiKeyValues]]
    /\ custCount \in 0..MaxCustomers
    /\ srcKind \in {"static", "emptyMore"}
    /\ route \in {"paginated", "single"}
    /\ sid \in SessionIds
    /\ pc = "lookup"
    /\ apiKey = ""
    /\ hasNextPage = JsUndefined
    /\ cursor = NullCursor
    /\ allCustomers = <<>>
    /\ batchNumber = 0
    /\ customers = <<>>
    /\ pageInfo = [hasNextPage |-> FALSE, endCursor |-> NullCursor]
    /\ fetchLog = <<>>
    /\ dispatchLog = <<>>
    /\ result = NoResult
    /\ hook = HookIdle
    /\ runs = <<>>
    /\ shopCount = <<>>
    /\ save = <<>>
    /\ lastSaved = <<>>

\* ------------------------------------------------------------ log entries
FetchEntry(seq, first, after) ==
    [seq |-> seq, first |-> first, after |-> after, outcome |-> "pending",
     rows |-> Absent, more |-> FALSE]

\* body and Authorization header of the POST to the external API
DispatchEntryZeroBased(seq, batch, key, total) ==
    [seq |-> seq - 1, customers |-> batch, auth |-> key, totalProcessed |-> total,
     outcome |-> "pending", status |-> Absent, body |-> "unread"]
DispatchEntry(seq, batch, key, total) ==
    [seq |-> seq, customers |-> batch, auth |-> key, totalProcessed |-> total,
     outcome |-> "pending", status |-> Absent, body |-> "unread"]

SetOutcome(log, o) == [log EXCEPT ![Len(log)].outcome = o]
SetPage(log, page) ==
    [log EXCEPT ![Len(log)].outcome = "page",
                ![Len(log)].rows = Len(page.records),
                ![Len(log)].more = page.pageInfo.hasNextPage]
SetBody(log, b) == [log EXCEPT ![Len(log)].body = b]
SetStatus(log, o, st) ==
    [log EXCEPT ![Len(log)].outcome = o, ![Len(log)].status = st]

\* ----------------------------------------------------- credential lookup
\* await prisma.session.findUnique(...) rejects; the await is outside the try.
LookupRejects ==
    /\ pc = "lookup"
    /\ pc' = "raised"
    /\ UNCHANGED <<save, lastSaved, hook, runs, shopCount, sessions, custCount, srcKind, route, sid, apiKey, hasNextPage,
                   cursor, allCustomers, batchNumber, customers, pageInfo,
                   fetchLog, dispatchLog, result>>

\* if (!apiKey) return json({ success: false, ... })
LookupNoKey ==
    /\ pc = "lookup"
    /\ ~HasApiKey(ApiKeyOf(sessions[sid]))
    /\ apiKey' = ApiKeyOf(sessions[sid])
    /\ result' = NoApiKeyResult
    /\ pc' = "done"
    /\ UNCHANGED <<save, lastSaved, hook, runs, shopCount, sessions, custCount, srcKind, route, sid, hasNextPage, cursor,
                   allCustomers, batchNumber, customers, pageInfo, fetchLog,
                   dispatchLog>>

\* the key is present: enter the try block
LookupFound ==
    /\ pc = "lookup"
    /\ HasApiKey(ApiKeyOf(sessions[sid]))
    /\ apiKey' = ApiKeyOf(sessions[sid])
    /\ hasNextPage' = JsTrue
    /\ cursor' = NullCursor
    /\ allCustomers' = <<>>
    /\ batchNumber' = 0
    /\ pc' = IF route = "paginated" THEN "loop" ELSE "fetch"
    /\ UNCHANGED <<save, lastSaved, hook, runs, shopCount, sessions, custCount, srcKind, route, sid, customers, pageInfo,
                   fetchLog, dispatchLog, result>>

\* ------------------------------------------------------ paginated action
\* while (hasNextPage) { batchNumber++; await admin.graphql(... after: cursor)
LoopFetch ==
    /\ route = "paginated"
    /\ pc = "loop"
    /\ Truthy(hasNextPage)
    /\ batchNumber < MaxBatches
    /\ batchNumber' = batchNumber + 1
    /\ fetchLog' = Append(fetchLog, FetchEntry(batchNumber + 1, BATCH_SIZE, cursor))
    /\ pc' = "awaitFetch"
    /\ UNCHANGED <<save, lastSaved, hook, runs, shopCount, sessions, custCount, srcKind, route, sid, apiKey, hasNextPage,
                   cursor, allCustomers, customers, pageInfo, dispatchLog, result>>

\* the loop condition is false: return json({ success: true, ... })
LoopExit ==
    /\ route = "paginated"
    /\ pc = "loop"
    /\ ~Truthy(hasNextPage)
    /\ result' = PaginatedSuccess(allCustomers, batchNumber)
    /\ pc' = "done"
    /\ UNCHANGED <<save, lastSaved, hook, runs, shopCount, sessions, custCount, srcKind, route, sid, apiKey, hasNextPage,
                   cursor, allCustomers, batchNumber, customers, pageInfo,
                   fetchLog, dispatchLog>>

\* the page arrives: map the edges, reassign hasNextPage, append the batch to
\* allCustomers and POST it to the external API
PageArrives ==
    /\ route = "paginated"
    /\ pc = "awaitFetch"
    /\ LET page == QueryPage(srcKind, custCount, cursor, BATCH_SIZE)
           all  == allCustomers \o page.records
       IN  /\ customers' = page.records
           /\ pageInfo' = page.pageInfo
           /\ hasNextPage' = ReadHasNextpage(page.pageInfo)
           /\ allCustomers' = all
           /\ dispatchLog' = Append(dispatchLog,
                  DispatchEntry(batchNumber, page.records, apiKey, Len(all)))
           /\ fetchLog' = SetPage(fetchLog, page)
    /\ pc' = "awaitDispatch"
    /\ UNCHANGED <<save, lastSaved, hook, runs, shopCount, sessions, custCount, srcKind, route, sid, apiKey, cursor,
                   batchNumber, result>>

\* admin.graphql or response.json() throws ("throw"), or the answer carries
\* no data and responseJson.data.customers throws a TypeError ("nodata")
FetchFails ==
    /\ pc = "awaitFetch"
    /\ \E kind \in {"throw", "nodata"} :
          /\ fetchLog' = SetOutcome(fetchLog, kind)
          /\ result' = CatchResult(Message(
                 IF kind = "throw" THEN "graphql request failed"
                                   ELSE "Cannot read properties of undefined",
                 Absent))
    /\ pc' = "done"
    /\ UNCHANGED <<save, lastSaved, hook, runs, shopCount, sessions, custCount, srcKind, route, sid, apiKey, hasNextPage,
                   cursor, allCustomers, batchNumber, customers, pageInfo,
                   dispatchLog>>

\* the external API answers the batch with a 2xx status: next iteration
DispatchOk ==
    /\ route = "paginated"
    /\ pc = "awaitDispatch"
    /\ \E st \in StatusCodes :
          /\ ResponseOk(st)
          /\ dispatchLog' = SetStatus(dispatchLog, "response", st)
    /\ cursor' = CursorAfterBatch(cursor, pageInfo)
    /\ pc' = "loop"
    /\ UNCHANGED <<save, lastSaved, hook, runs, shopCount, sessions, custCount, srcKind, route, sid, apiKey, hasNextPage,
                   allCustomers, batchNumber, customers, pageInfo, fetchLog,
                   result>>

\* if (!externalApiResponse.ok) throw new Error(...): caught by the catch block
DispatchRejected ==
    /\ pc = "awaitDispatch"
    /\ \E st \in StatusCodes :
          /\ ~ResponseOk(st)
          /\ dispatchLog' = SetStatus(dispatchLog, "response", st)
          /\ result' = CatchResult(Message("API call failed with status", st))
    /\ pc' = "done"
    /\ UNCHANGED <<save, lastSaved, hook, runs, shopCount, sessions, custCount, srcKind, route, sid, apiKey, hasNextPage,
                   cursor, allCustomers, batchNumber, customers, pageInfo,
                   fetchLog>>

\* fetch() itself rejects (connection refused, timeout, DNS): caught
DispatchThrows ==
    /\ pc = "awaitDispatch"
    /\ dispatchLog' = SetOutcome(dispatchLog, "networkError")
    /\ result' = CatchResult(Message("fetch failed", Absent))
    /\ pc' = "done"
    /\ UNCHANGED <<save, lastSaved, hook, runs, shopCount, sessions, custCount, srcKind, route, sid, apiKey, hasNextPage,
                   cursor, allCustomers, batchNumber, customers, pageInfo,
                   fetchLog>>

\* ---------------------------------------------------- single-page action
\* await admin.graphql(... first: 50)
SingleFetch ==
    /\ route = "single"
    /\ pc = "fetch"
    /\ fetchLog' = Append(fetchLog, FetchEntry(1, SINGLE_PAGE_FIRST, NullCursor))
    /\ pc' = "awaitFetch"
    /\ UNCHANGED <<save, lastSaved, hook, runs, shopCount, sessions, custCount, srcKind, route, sid, apiKey, hasNextPage,
                   cursor, allCustomers, batchNumber, customers, pageInfo,
                   dispatchLog, result>>

\* the page arrives: POST the customers to the external API
SinglePageArrives ==
    /\ route = "single"
    /\ pc = "awaitFetch"
    /\ LET page == QueryPage(srcKind, custCount, NullCursor, SINGLE_PAGE_FIRST)
       IN  /\ customers' = page.records
           /\ pageInfo' = page.pageInfo
           /\ dispatchLog' = Append(dispatchLog,
                  DispatchEntry(1, page.records, apiKey, Absent))
           /\ fetchLog' = SetPage(fetchLog, page)
    /\ pc' = "awaitDispatch"
    /\ UNCHANGED <<save, lastSaved, hook, runs, shopCount, sessions, custCount, srcKind, route, sid, apiKey, hasNextPage,
                   cursor, allCustomers, batchNumber, result>>

\* 2xx: go on to await externalApiResponse.json()
SingleDispatchOk ==
    /\ route = "single"
    /\ pc = "awaitDispatch"
    /\ \E st \in StatusCodes :
          /\ ResponseOk(st)
          /\ dispatchLog' = SetStatus(dispatchLog, "response", st)
    /\ pc' = "parse"
    /\ UNCHANGED <<save, lastSaved, hook, runs, shopCount, sessions, custCount, srcKind, route, sid, apiKey, hasNextPage,
                   cursor, allCustomers, batchNumber, customers, pageInfo,
                   fetchLog, result>>

\* the body of the 2xx answer is JSON: return json({ success: true, ... })
SingleParseOk ==
    /\ route = "single"
    /\ pc = "parse"
    /\ result' = SingleSuccess(customers)
    /\ dispatchLog' = SetBody(dispatchLog, "json")
    /\ pc' = "done"
    /\ UNCHANGED <<save, lastSaved, hook, runs, shopCount, sessions, custCount, srcKind, route, sid, apiKey, hasNextPage,
                   cursor, allCustomers, batchNumber, customers, pageInfo,
                   fetchLog>>

\* the body of the 2xx answer is not JSON: json() throws, caught
SingleParseFails ==
    /\ route = "single"
    /\ pc = "parse"
    /\ result' = CatchResult(Message("Unexpected token in JSON", Absent))
    /\ dispatchLog' = SetBody(dispatchLog, "notJson")
    /\ pc' = "done"
    /\ UNCHANGED <<save, lastSaved, hook, runs, shopCount, sessions, custCount, srcKind, route, sid, apiKey, hasNextPage,
                   cursor, allCustomers, batchNumber, customers, pageInfo,
                   fetchLog>>

Next ==
    \/ LookupRejects
    \/ LookupNoKey
    \/ LookupFound
    \/ LoopFetch
    \/ LoopExit
    \/ PageArrives
    \/ FetchFails
    \/ DispatchOk
    \/ DispatchRejected
    \/ DispatchThrows
    \/ SingleFetch
    \/ SinglePageArrives
    \/ SingleDispatchOk
    \/ SingleParseOk
    \/ SingleParseFails

Spec == Init /\ [][Next]_vars

\* Every await completes and the action runs on: weak fairness of each step.
FairSpec == Init /\ [][Next]_vars /\ WF_vars(Next)

\* ------------------------------------------- abandoned-checkout webhook
MsPerMinute == 1000 * 60

\* currentDate.getTime() of the delivery
NowMs == (MaxMinutes + 2) * MsPerMinute

\* Idle times tried, in whole minutes: around zero (updated_at up to two
\* minutes in the future) and around the threshold, up to MaxMinutes.
IdleMinutes ==
    ((0 - 2)..2) \cup ((ABANDONMENT_THRESHOLD_MINUTES - 2)..MaxMinutes)

\* checkout.updated_at values: a whole number of minutes before now, or one
\* millisecond short of the next minute; <<>> is a string new Date() cannot
\* parse.
UpdatedAtValues ==
    {<<>>} \cup
    { <<NowMs - (m * MsPerMinute + j)>> :
          m \in IdleMinutes, j \in {0, MsPerMinute - 1} }

\* if (completedAt)
IsCompletedNever(completedAt) == FALSE
IsCompleted(completedAt) == completedAt # NullTs

\* timeDiffMs = currentDate.getTime() - updatedAtDate.getTime();
\* minutesElapsed = Math.floor(timeDiffMs / (1000 * 60)); <<>> is NaN
MinutesElapsed(now, updatedAt) ==
    IF updatedAt = <<>> THEN <<>>
    ELSE <<(now - updatedAt[1]) \div MsPerMinute>>

\* if (minutesElapsed >= ABANDONMENT_THRESHOLD_MINUTES); NaN >= 60 is false
IsAbandonedStrict(minutes) ==
    minutes # <<>> /\ minutes[1] > ABANDONMENT_THRESHOLD_MINUTES
IsAbandoned(minutes) ==
    minutes # <<>> /\ minutes[1] >= ABANDONMENT_THRESHOLD_MINUTES

\* if (apiKey): the notification is sent; the handler keeps nothing from
\* earlier deliveries
NotifyNeededAlways(h, key) == TRUE
NotifyNeededOnce(h, key) == HasApiKey(key) /\ h.totalSends = 0
NotifyNeeded(h, key) == HasApiKey(key)

\* return new Response() after the try/catch, whatever happened inside
AckStatusFailing(outcome) ==
    IF outcome \in {"rejected", "networkError", "lookupFailed"} THEN 500 ELSE 200
AckStatus(outcome) == 200

\* the handler is entered with a fresh payload
HookEnter(h, completedAt, updatedAt) ==
    [HookIdle EXCEPT
        !.completedAt = completedAt, !.updatedAt = updatedAt,
        !.deliveries = h.deliveries + 1, !.acks = h.acks,
        !.totalSends = h.totalSends, !.totalDue = h.totalDue]

\* the handler returns its Response
HookReturn(h, outcome) ==
    [h EXCEPT !.pc = "idle", !.outcome = outcome,
              !.response = AckStatus(outcome), !.acks = h.acks + 1]

HookFrame == UNCHANGED <<sessions, syncVars, runs, shopCount, save, lastSaved>>

\* if (completedAt) { ...; return new Response(); }
HookCompleted ==
    /\ hook.pc = "idle"
    /\ hook.deliveries < MaxDeliveries
    /\ \E c \in CompletedAtValues, u \in UpdatedAtValues :
          /\ IsCompleted(c)
          /\ hook' = HookReturn(
                 [HookEnter(hook, c, u) EXCEPT !.decision = "completed"], "none")
    /\ HookFrame

\* minutesElapsed < threshold: logged as not abandoned yet, acknowledged
HookNotYet ==
    /\ hook.pc = "idle"
    /\ hook.deliveries < MaxDeliveries
    /\ \E c \in CompletedAtValues, u \in UpdatedAtValues :
          /\ ~IsCompleted(c)
          /\ ~IsAbandoned(MinutesElapsed(NowMs, u))
          /\ hook' = HookReturn(
                 [HookEnter(hook, c, u) EXCEPT
                     !.decision = "notYet",
                     !.minutesElapsed = MinutesElapsed(NowMs, u)], "none")
    /\ HookFrame

\* minutesElapsed >= threshold: await prisma.session.findFirst({ where: { shop } })
HookAbandoned ==
    /\ hook.pc = "idle"
    /\ hook.deliveries < MaxDeliveries
    /\ \E c \in CompletedAtValues, u \in UpdatedAtValues :
          /\ ~IsCompleted(c)
          /\ IsAbandoned(MinutesElapsed(NowMs, u))
          /\ hook' = [HookEnter(hook, c, u) EXCEPT
                         !.decision = "abandoned",
                         !.minutesElapsed = MinutesElapsed(NowMs, u),
                         !.pc = "lookup"]
    /\ HookFrame

\* findFirst returns one of the shop's session rows (no orderBy); its apiKey
\* is set: POST the notification
HookLookupSends ==
    /\ hook.pc = "lookup"
    /\ \E s \in SessionIds :
          /\ sessions[s].shop = "shopA"
          /\ NotifyNeeded(hook, ApiKeyOf(sessions[s]))
          /\ hook' = [hook EXCEPT
                 !.pc = "send",
                 !.apiKey = ApiKeyOf(sessions[s]),
                 !.keyInRow = sessions[s].apiKey \in Keys,
                 !.sends = hook.sends + 1,
                 !.totalSends = hook.totalSends + 1,
                 !.totalDue = hook.totalDue
                              + (IF sessions[s].apiKey \in Keys THEN 1 ELSE 0),
                 !.send = Notification(ApiKeyOf(sessions[s]), hook.minutesElapsed)]
    /\ HookFrame

\* the row found has no apiKey: console.log("No API key configured ...")
HookLookupNoKey ==
    /\ hook.pc = "lookup"
    /\ \E s \in SessionIds :
          /\ sessions[s].shop = "shopA"
          /\ ~NotifyNeeded(hook, ApiKeyOf(sessions[s]))
          /\ hook' = HookReturn(
                 [hook EXCEPT
                     !.apiKey = ApiKeyOf(sessions[s]),
                     !.keyInRow = sessions[s].apiKey \in Keys,
                     !.totalDue = hook.totalDue
                                  + (IF sessions[s].apiKey \in Keys THEN 1 ELSE 0),
                     !.skipLogged = TRUE], "skipped")
    /\ HookFrame

\* findFirst rejects: caught, console.error, acknowledged
HookLookupRejects ==
    /\ hook.pc = "lookup"
    /\ hook' = HookReturn([hook EXCEPT !.errorLogged = TRUE], "lookupFailed")
    /\ HookFrame

\* the endpoint answers 2xx
HookSendOk ==
    /\ hook.pc = "send"
    /\ \E st \in StatusCodes :
          /\ ResponseOk(st)
          /\ hook' = HookReturn(
                 [hook EXCEPT !.send.outcome = "response", !.send.status = st],
                 "sent")
    /\ HookFrame

\* if (!response.ok) throw ...: caught, console.error, acknowledged
HookSendRejected ==
    /\ hook.pc = "send"
    /\ \E st \in StatusCodes :
          /\ ~ResponseOk(st)
          /\ hook' = HookReturn(
                 [hook EXCEPT !.send.outcome = "response", !.send.status = st,
                              !.errorLogged = TRUE],
                 "rejected")
    /\ HookFrame

\* fetch() rejects: caught, console.error, acknowledged
HookSendThrows ==
    /\ hook.pc = "send"
    /\ hook' = HookReturn(
           [hook EXCEPT !.send.outcome = "networkError", !.errorLogged = TRUE],
           "networkError")
    /\ HookFrame

HookNext ==
    \/ HookCompleted
    \/ HookNotYet
    \/ HookAbandoned
    \/ HookLookupSends
    \/ HookLookupNoKey
    \/ HookLookupRejects
    \/ HookSendOk
    \/ HookSendRejected
    \/ HookSendThrows

\* no sync run: only the webhook handler acts
SyncOff ==
    /\ custCount = 0
    /\ srcKind = "static"
    /\ route = "paginated"
    /\ sid = "s1"
    /\ pc = "off"
    /\ apiKey = ""
    /\ hasNextPage = JsUndefined
    /\ cursor = NullCursor
    /\ allCustomers = <<>>
    /\ batchNumber = 0
    /\ customers = <<>>
    /\ pageInfo = [hasNextPage |-> FALSE, endCursor |-> NullCursor]
    /\ fetchLog = <<>>
    /\ dispatchLog = <<>>
    /\ result = NoResult

HookInit ==
    /\ sessions \in [SessionIds -> [shop : {"shopA"}, apiKey : ApiKeyValues]]
    /\ SyncOff
    /\ hook = HookIdle
    /\ runs = <<>>
    /\ shopCount = <<>>
    /\ save = <<>>
    /\ lastSaved = <<>>

HookSpec == HookInit /\ [][HookNext]_vars


\* ------------------------------- concurrent runs of the paginated action
\* Largest number of customers of a shop in the concurrent runs.
MaxShopCustomers == 1

RunIds == {"r1", "r2"}
Shops == {"shopA", "shopB"}

\* session s1 belongs to shopA, session s2 to shopB
ShopOfSession == [s \in SessionIds |-> IF s = "s1" THEN "shopA" ELSE "shopB"]

\* the customers of a shop, told apart from those of the other shop
ShopRecords(shop, recs) == [i \in 1..Len(recs) |-> <<shop, recs[i]>>]

\* admin.graphql is bound to the request's session: it queries that shop
ShopPage(shop, n, after, first) ==
    LET page == StaticPage(n, after, first)
    IN  [records |-> ShopRecords(shop, page.records), pageInfo |-> page.pageInfo]

\* the locals of a request before its first await
RunStart(s) ==
    [sid |-> s, shop |-> ShopOfSession[s], pc |-> "lookup", apiKey |-> "",
     hasNextPage |-> JsUndefined, cursor |-> NullCursor, allCustomers |-> <<>>,
     batchNumber |-> 0, customers |-> <<>>,
     pageInfo |-> [hasNextPage |-> FALSE, endCursor |-> NullCursor],
     fetchLog |-> <<>>, dispatchLog |-> <<>>, result |-> NoResult]

\* nothing at the entry of the action rejects or delays a request because
\* another request of the same shop is being served
MayStartOnePerShop(rs, r) ==
    \A q \in DOMAIN rs :
        (q # r /\ rs[q].shop = rs[r].shop)
        => rs[q].pc \in {"lookup", "done", "raised"}
MayStart(rs, r) == TRUE

\* let allCustomers is local to the invocation
AllCustomersShared(rs, r) == rs["r1"].allCustomers
AllCustomersOf(rs, r) == rs[r].allCustomers

\* Authorization: `Bearer ${apiKey}` uses the const read at the lookup
DispatchKeyFromStore(run, table) == ApiKeyOf(table[run.sid])
DispatchKey(run, table) == run.apiKey

ConcFrame == UNCHANGED <<syncVars, hook, shopCount, save, lastSaved>>

\* await prisma.session.findUnique(...) rejects, outside the try
CLookupRejects(r) ==
    /\ runs[r].pc = "lookup"
    /\ runs' = [runs EXCEPT ![r].pc = "raised"]
    /\ UNCHANGED sessions
    /\ ConcFrame

\* if (!apiKey) return json({ success: false, ... })
CLookupNoKey(r) ==
    /\ runs[r].pc = "lookup"
    /\ ~HasApiKey(ApiKeyOf(sessions[runs[r].sid]))
    /\ runs' = [runs EXCEPT ![r].apiKey = ApiKeyOf(sessions[runs[r].sid]),
                            ![r].result = NoApiKeyResult,
                            ![r].pc = "done"]
    /\ UNCHANGED sessions
    /\ ConcFrame

\* the key is present: enter the try block
CLookupFound(r) ==
    /\ runs[r].pc = "lookup"
    /\ MayStart(runs, r)
    /\ HasApiKey(ApiKeyOf(sessions[runs[r].sid]))
    /\ runs' = [runs EXCEPT ![r].apiKey = ApiKeyOf(sessions[runs[r].sid]),
                            ![r].hasNextPage = JsTrue,
                            ![r].cursor = NullCursor,
                            ![r].allCustomers = <<>>,
                            ![r].batchNumber = 0,
                            ![r].pc = "loop"]
    /\ UNCHANGED sessions
    /\ ConcFrame

\* while (hasNextPage) { batchNumber++; await admin.graphql(...)
CLoopFetch(r) ==
    /\ runs[r].pc = "loop"
    /\ Truthy(runs[r].hasNextPage)
    /\ runs[r].batchNumber < MaxBatches
    /\ runs' = [runs EXCEPT
           ![r].batchNumber = runs[r].batchNumber + 1,
           ![r].fetchLog = Append(runs[r].fetchLog,
               FetchEntry(runs[r].batchNumber + 1, BATCH_SIZE, runs[r].cursor)),
           ![r].pc = "awaitFetch"]
    /\ UNCHANGED sessions
    /\ ConcFrame

\* the loop condition is false: return json({ success: true, ... })
CLoopExit(r) ==
    /\ runs[r].pc = "loop"
    /\ ~Truthy(runs[r].hasNextPage)
    /\ runs' = [runs EXCEPT
           ![r].result = PaginatedSuccess(runs[r].allCustomers, runs[r].batchNumber),
           ![r].pc = "done"]
    /\ UNCHANGED sessions
    /\ ConcFrame

\* the page arrives: append the batch to allCustomers and POST it
CPageArrives(r) ==
    /\ runs[r].pc = "awaitFetch"
    /\ LET page == ShopPage(runs[r].shop, shopCount[runs[r].shop],
                            runs[r].cursor, BATCH_SIZE)
           all  == AllCustomersOf(runs, r) \o page.records
       IN  runs' = [runs EXCEPT
               ![r].customers = page.records,
               ![r].pageInfo = page.pageInfo,
               ![r].hasNextPage = ReadHasNextpage(page.pageInfo),
               ![r].allCustomers = all,
               ![r].fetchLog = SetPage(runs[r].fetchLog, page),
               ![r].dispatchLog = Append(runs[r].dispatchLog,
                   DispatchEntry(runs[r].batchNumber, page.records,
                                 DispatchKey(runs[r], sessions), Len(all))),
               ![r].pc = "awaitDispatch"]
    /\ UNCHANGED sessions
    /\ ConcFrame

\* the page fetch throws: caught
CFetchFails(r) ==
    /\ runs[r].pc = "awaitFetch"
    /\ \E kind \in {"throw", "nodata"} :
          runs' = [runs EXCEPT
              ![r].fetchLog = SetOutcome(runs[r].fetchLog, kind),
              ![r].result = CatchResult(Message(
                  IF kind = "throw" THEN "graphql request failed"
                                    ELSE "Cannot read properties of undefined",
                  Absent)),
              ![r].pc = "done"]
    /\ UNCHANGED sessions
    /\ ConcFrame

\* the external API answers 2xx: next iteration
CDispatchOk(r) ==
    /\ runs[r].pc = "awaitDispatch"
    /\ \E st \in StatusCodes :
          /\ ResponseOk(st)
          /\ runs' = [runs EXCEPT
                 ![r].dispatchLog = SetStatus(runs[r].dispatchLog, "response", st),
                 ![r].cursor = CursorAfterBatch(runs[r].cursor, runs[r].pageInfo),
                 ![r].pc = "loop"]
    /\ UNCHANGED sessions
    /\ ConcFrame

\* if (!externalApiResponse.ok) throw ...: caught
CDispatchRejected(r) ==
    /\ runs[r].pc = "awaitDispatch"
    /\ \E st \in StatusCodes :
          /\ ~ResponseOk(st)
          /\ runs' = [runs EXCEPT
                 ![r].dispatchLog = SetStatus(runs[r].dispatchLog, "response", st),
                 ![r].result =
                     CatchResult(Message("API call failed with status", st)),
                 ![r].pc = "done"]
    /\ UNCHANGED sessions
    /\ ConcFrame

\* fetch() rejects: caught
CDispatchThrows(r) ==
    /\ runs[r].pc = "awaitDispatch"
    /\ runs' = [runs EXCEPT
           ![r].dispatchLog = SetOutcome(runs[r].dispatchLog, "networkError"),
           ![r].result = CatchResult(Message("fetch failed", Absent)),
           ![r].pc = "done"]
    /\ UNCHANGED sessions
    /\ ConcFrame

\* the save_api_key action: UPDATE "Session" SET "apiKey" = ... WHERE "id" = ...
\* with the submitted key, or "" when the form field is missing
SaveApiKey(s, k) ==
    /\ sessions[s].apiKey # k
    /\ sessions' = [sessions EXCEPT ![s].apiKey = k]
    /\ UNCHANGED runs
    /\ ConcFrame

ConcNext ==
    \/ \E r \in RunIds : CLookupRejects(r)
    \/ \E r \in RunIds : CLookupNoKey(r)
    \/ \E r \in RunIds : CLookupFound(r)
    \/ \E r \in RunIds : CLoopFetch(r)
    \/ \E r \in RunIds : CLoopExit(r)
    \/ \E r \in RunIds : CPageArrives(r)
    \/ \E r \in RunIds : CFetchFails(r)
    \/ \E r \in RunIds : CDispatchOk(r)
    \/ \E r \in RunIds : CDispatchRejected(r)
    \/ \E r \in RunIds : CDispatchThrows(r)
    \/ \E s \in SessionIds, k \in {""} \cup Keys : SaveApiKey(s, k)

ConcInit ==
    /\ sessions \in { t \in [SessionIds -> [shop : Shops, apiKey : ApiKeyValues]] :
                        \A s \in SessionIds : t[s].shop = ShopOfSession[s] }
    /\ shopCount \in [Shops -> 0..MaxShopCustomers]
    /\ runs \in { [r \in RunIds |-> RunStart(f[r])] : f \in [RunIds -> SessionIds] }
    /\ SyncOff
    /\ hook = HookIdle
    /\ save = <<>>
    /\ lastSaved = <<>>

ConcSpec == ConcInit /\ [][ConcNext]_vars


\* ------------------------------------------ save_api_key and the lookups
\* formData.get("apiKey")?.toString() || ""
FormKeys == {""} \cup Keys

\* json({ type: "api_key_update", status: "success", apiKey, isConnected: true })
SaveSuccess(key) ==
    [status |-> "success", apiKey |-> key, isConnected |-> TRUE, error |-> "none"]

\* json({ type: "api_key_update", status: "error", apiKey: "", ... error })
SaveError(err) ==
    [status |-> "error", apiKey |-> "", isConnected |-> FALSE, error |-> err]

NoSaveResult ==
    [status |-> "none", apiKey |-> "", isConnected |-> FALSE, error |-> "none"]

\* no save_api_key request is being served
SaveIdle ==
    [pc |-> "idle", sid |-> "s1", apiKey |-> "", outcome |-> "none",
     status |-> Absent, result |-> NoSaveResult]

\* no UPDATE has been executed for the shop
NoSave == [sid |-> "none", apiKey |-> NullKey]

\* const isValid = response.status === 200
IsValidWhenOk(status) == status >= 200 /\ status <= 299
IsValid(status) == status = 200

\* UPDATE "Session" SET "apiKey" = ${apiKey} WHERE "id" = ${session.id}
UpdateApiKey(table, id, key) == [table EXCEPT ![id].apiKey = key]

\* prisma.session.findFirst({ where: { shop } }): the rows it may return
FindFirstByShop(table, shop) == { s \in DOMAIN table : table[s].shop = shop }

\* prisma.session.findUnique({ where: { id: session.id } })
FindUniqueById(table, id) == table[id]

SaveFrame == UNCHANGED <<syncVars, hook, runs, shopCount>>

\* the request is authenticated, the form is read, the validation POST is sent
SaveBegin(s, k) ==
    /\ save.pc \in {"idle", "done"}
    /\ save' = [SaveIdle EXCEPT !.pc = "validating", !.sid = s, !.apiKey = k,
                                !.outcome = "pending"]
    /\ UNCHANGED <<sessions, lastSaved>>
    /\ SaveFrame

\* the validation answers 200: the UPDATE is executed, success is returned
SaveValid ==
    /\ save.pc = "validating"
    /\ \E st \in StatusCodes :
          /\ IsValid(st)
          /\ sessions' = UpdateApiKey(sessions, save.sid, save.apiKey)
          /\ lastSaved' = [lastSaved EXCEPT ![sessions[save.sid].shop] =
                              [sid |-> save.sid, apiKey |-> save.apiKey]]
          /\ save' = [save EXCEPT !.pc = "done", !.outcome = "response",
                                  !.status = st,
                                  !.result = SaveSuccess(save.apiKey)]
    /\ SaveFrame

\* the validation answers 200 but the UPDATE rejects: caught
SaveUpdateRejects ==
    /\ save.pc = "validating"
    /\ \E st \in StatusCodes :
          /\ IsValid(st)
          /\ save' = [save EXCEPT !.pc = "done", !.outcome = "updateFailed",
                                  !.status = st,
                                  !.result = SaveError("Failed to validate API key")]
    /\ UNCHANGED <<sessions, lastSaved>>
    /\ SaveFrame

\* the validation answers another status: the else branch
SaveInvalid ==
    /\ save.pc = "validating"
    /\ \E st \in StatusCodes :
          /\ ~IsValid(st)
          /\ save' = [save EXCEPT !.pc = "done", !.outcome = "response",
                                  !.status = st,
                                  !.result = SaveError("Invalid API key")]
    /\ UNCHANGED <<sessions, lastSaved>>
    /\ SaveFrame

\* the validation fetch rejects: caught
SaveTransportFails ==
    /\ save.pc = "validating"
    /\ save' = [save EXCEPT !.pc = "done", !.outcome = "networkError",
                            !.result = SaveError("Failed to validate API key")]
    /\ UNCHANGED <<sessions, lastSaved>>
    /\ SaveFrame

\* the save_api_key action without validation: the UPDATE is always executed
PlainSave(s, k) ==
    /\ sessions' = UpdateApiKey(sessions, s, k)
    /\ lastSaved' = [lastSaved EXCEPT ![sessions[s].shop] =
                        [sid |-> s, apiKey |-> k]]
    /\ sessions' # sessions \/ lastSaved' # lastSaved
    /\ UNCHANGED save
    /\ SaveFrame

SaveNext ==
    \/ \E s \in SessionIds, k \in FormKeys : SaveBegin(s, k)
    \/ SaveValid
    \/ SaveUpdateRejects
    \/ SaveInvalid
    \/ SaveTransportFails
    \/ \E s \in SessionIds, k \in FormKeys : PlainSave(s, k)

\* the Session table has one row per session id; shop is not a key of it
SaveInit ==
    /\ sessions \in [SessionIds -> [shop : Shops, apiKey : ApiKeyValues]]
    /\ save = SaveIdle
    /\ lastSaved = [sh \in Shops |-> NoSave]
    /\ SyncOff
    /\ hook = HookIdle
    /\ runs = <<>>
    /\ shopCount = <<>>

SaveSpec == SaveInit /\ [][SaveNext]_vars


\* ======================================================= derived notions
Terminated == pc \in {"done", "raised"}

\* the spec's SyncRun.status read off the returned JSON, which carries
\* success: true | false only
StatusOf(res) == IF res.success THEN "success" ELSE "failed"

\* a POST that did not come back ok: a non-2xx answer or a transport failure
SinkAnswered2xx(d) ==
    d.outcome = "response" /\ d.status \in 200..299
NonOkDispatch(d) ==
    \/ d.outcome = "networkError"
    \/ d.outcome = "response" /\ d.status \notin 200..299

FetchFailed(f) == f.outcome \in {"throw", "nodata"}

RECURSIVE ConcatBatches(_)
ConcatBatches(log) ==
    IF log = <<>> THEN <<>>
    ELSE ConcatBatches(SubSeq(log, 1, Len(log) - 1)) \o log[Len(log)].customers

\* number of records of the batches of log whose POST was answered 2xx
RECURSIVE OkForwarded(_)
OkForwarded(log) ==
    IF log = <<>> THEN 0
    ELSE OkForwarded(SubSeq(log, 1, Len(log) - 1))
         + (IF SinkAnswered2xx(log[Len(log)])
            THEN Len(log[Len(log)].customers) ELSE 0)

CeilDiv(a, b) == (a + b - 1) \div b
Max(a, b) == IF a > b THEN a ELSE b

\* ================================================================ claims

\* C1: for a static source, the batches fetched by one completed run of the
\* paginated action, concatenated, are exactly the source's ordered customer
\* list: no record twice, none skipped.
C1_BatchesCoverSource ==
    (/\ route = "paginated"
     /\ srcKind = "static"
     /\ pc = "done"
     /\ result.success)
    => ConcatBatches(dispatchLog) = Source(custCount)

\* C2: static source of N customers, page size P, a sink that always answers
\* 2xx: the run issues ceil(N/P) page fetches (one for the empty shop) and as
\* many dispatches, and ends with success and totalForwarded = N.
C2_HappyPath ==
    (/\ pc = "done"
     /\ srcKind = "static"
     /\ apiKey # ""
     /\ \A i \in DOMAIN fetchLog : fetchLog[i].outcome = "page"
     /\ \A i \in DOMAIN dispatchLog :
           SinkAnswered2xx(dispatchLog[i]) /\ dispatchLog[i].body # "notJson")
    => /\ Len(fetchLog) = Max(1, CeilDiv(custCount, BATCH_SIZE))
       /\ Len(dispatchLog) = Len(fetchLog)
       /\ result.success
       /\ Len(result.customers) = custCount

\* C3: with no stored credential the run returns the failed "API key is not
\* configured" result, has processed zero batches and has made no network
\* call: no page fetch and no POST to the sink.
C3_NoCredentialNoCalls ==
    (pc \notin {"lookup", "raised"} /\ apiKey = "")
    => /\ pc = "done"
       /\ result = NoApiKeyResult
       /\ ~result.success
       /\ batchNumber = 0
       /\ fetchLog = <<>>
       /\ dispatchLog = <<>>

C3_Witness ==
    /\ pc = "done"
    /\ sessions[sid].apiKey \in {NullKey, ""}
    /\ result = NoApiKeyResult
    /\ fetchLog = <<>>
    /\ dispatchLog = <<>>

\* C4: when the POST of batch k comes back non-ok (non-2xx or transport
\* failure) the run stops at once with a failure: batch k is not sent again
\* and no fetch or POST with a sequence number above k is made.
C4_StopsAtFirstNonOk ==
    \A i \in DOMAIN dispatchLog :
        NonOkDispatch(dispatchLog[i])
        => /\ pc = "done"
           /\ ~result.success
           /\ i = Len(dispatchLog)
           /\ \A j \in DOMAIN dispatchLog :
                 j # i => dispatchLog[j].seq < dispatchLog[i].seq
           /\ \A j \in DOMAIN fetchLog : fetchLog[j].seq <= dispatchLog[i].seq

C4_Witness ==
    /\ pc = "done"
    /\ route = "paginated"
    /\ Len(dispatchLog) = 1
    /\ Len(fetchLog) = 1
    /\ \E i \in DOMAIN dispatchLog :
          dispatchLog[i].outcome = "response" /\ dispatchLog[i].status = 500
    /\ \E i \in DOMAIN dispatchLog : dispatchLog[i].outcome # "pending"
    /\ ~result.success

C6_CountExcludesInFlight ==
    route = "paginated"
    => /\ \A i \in DOMAIN dispatchLog :
             dispatchLog[i].totalProcessed =
                 OkForwarded(SubSeq(dispatchLog, 1, i - 1))
       /\ pc = "done" => Len(result.customers) = OkForwarded(dispatchLog)

\* C6 amended: the count returned at the end of a run of the paginated
\* action is the number of records of the batches answered ok (a failed run
\* returns no customers); the batch is added to the running total before it
\* is sent, so the totalProcessed sent with a batch includes that batch.
C6_FinalCountIsOkBatches ==
    route = "paginated"
    => /\ \A i \in DOMAIN dispatchLog :
             dispatchLog[i].totalProcessed =
                 Len(ConcatBatches(SubSeq(dispatchLog, 1, i)))
       /\ pc = "done" =>
             /\ Len(result.customers) = OkForwarded(dispatchLog)
             /\ result.success =>
                   result.totalCustomers = OkForwarded(dispatchLog)

C6_Witness ==
    /\ route = "paginated"
    /\ pc = "awaitDispatch"
    /\ Len(dispatchLog) = 1
    /\ dispatchLog[1].outcome = "pending"
    /\ dispatchLog[1].totalProcessed = BATCH_SIZE
    /\ OkForwarded(dispatchLog) = 0

\* C7: a sync run never raises: whatever the credential lookup, the page
\* fetches and the POSTs do, the action ends by returning a result.
C7_NeverRaises ==
    /\ pc # "raised"
    /\ pc = "done" => result # NoResult

\* C8: every run terminates, and no page is fetched after a fetch that
\* reported no more pages or returned an empty batch; a source that keeps
\* signalling more pages with zero rows does not keep the loop going.
C8_Terminates ==
    /\ <>Terminated
    /\ [](\A i \in DOMAIN fetchLog :
             (/\ fetchLog[i].outcome = "page"
              /\ (~fetchLog[i].more \/ fetchLog[i].rows = 0))
             => i = Len(fetchLog))

C8_Witness ==
    /\ route = "paginated"
    /\ srcKind = "emptyMore"
    /\ pc = "done"
    /\ Len(fetchLog) = 1
    /\ fetchLog[1].more
    /\ fetchLog[1].rows = 0
    /\ result.success

\* C9 as stated: in the paginated action a page fetch failing at sequence
\* number k stops the run with
\* no POST for batch k and no later fetch, the run is failed, and the returned
\* result records k as the sequence number that failed.
C9_FetchFailureRecordsSeq ==
    \A i \in DOMAIN fetchLog :
        (route = "paginated" /\ FetchFailed(fetchLog[i]))
        => /\ pc = "done"
           /\ i = Len(fetchLog)
           /\ \A j \in DOMAIN dispatchLog : dispatchLog[j].seq < fetchLog[i].seq
           /\ StatusOf(result) = "failed"
           /\ \/ result.totalBatches = fetchLog[i].seq
              \/ result.message.n = fetchLog[i].seq

\* C9 amended: a page fetch failing at sequence number k stops the run with
\* no POST for batch k and no later fetch, and the run is failed; the returned
\* result carries the error's message and no sequence number.
C9_FetchFailureStopsRun ==
    \A i \in DOMAIN fetchLog :
        FetchFailed(fetchLog[i])
        => /\ pc = "done"
           /\ i = Len(fetchLog)
           /\ \A j \in DOMAIN dispatchLog : dispatchLog[j].seq < fetchLog[i].seq
           /\ StatusOf(result) = "failed"
           /\ result.message.kind \in
                 {"graphql request failed", "Cannot read properties of undefined"}
           /\ result.totalBatches = Absent
           /\ result.message.n = Absent

C9_Witness ==
    /\ pc = "done"
    /\ route = "paginated"
    /\ batchNumber = 1
    /\ Len(fetchLog) = 1
    /\ fetchLog[1].outcome = "throw"
    /\ dispatchLog = <<>>
    /\ ~result.success

\* C10: a run on a shop with zero customers (credential present, the page
\* fetched) always makes exactly one POST, carrying an empty batch, and when
\* the sink answers it 2xx the run ends with success and totalForwarded = 0.
C10_EmptyShop ==
    (/\ pc = "done"
     /\ srcKind = "static"
     /\ custCount = 0
     /\ Len(fetchLog) = 1
     /\ fetchLog[1].outcome = "page")
    => /\ Len(dispatchLog) = 1
       /\ dispatchLog[1].customers = <<>>
       /\ (SinkAnswered2xx(dispatchLog[1]) /\ dispatchLog[1].body # "notJson")
          => /\ StatusOf(result) = "success"
             /\ Len(result.customers) = 0
             /\ route = "paginated" => result.totalCustomers = 0

C10_Witness ==
    /\ pc = "done"
    /\ srcKind = "static"
    /\ custCount = 0
    /\ Len(dispatchLog) = 1
    /\ dispatchLog[1].customers = <<>>
    /\ dispatchLog[1].status = 201
    /\ result.success
    /\ Len(fetchLog) = 1

\* C15: within one run of the paginated action the outbound calls alternate
\* strictly: fetch 1, dispatch 1, fetch 2, dispatch 2, ...; every fetched
\* batch gets exactly one POST carrying its 1-based contiguous sequence
\* number, at most one call is in flight, and batch n+1 is fetched only
\* after the POST of batch n was answered.
C15_StrictAlternation ==
    route = "paginated"
    => /\ \A i \in DOMAIN fetchLog : fetchLog[i].seq = i
       /\ \A i \in DOMAIN dispatchLog :
             /\ dispatchLog[i].seq = i
             /\ i \in DOMAIN fetchLog
             /\ fetchLog[i].outcome = "page"
             /\ Len(dispatchLog[i].customers) = fetchLog[i].rows
       /\ Len(dispatchLog) <= Len(fetchLog)
       /\ Len(fetchLog) <= Len(dispatchLog) + 1
       /\ \A i \in DOMAIN fetchLog :
             i < Len(fetchLog)
             => /\ i \in DOMAIN dispatchLog
                /\ dispatchLog[i].outcome = "response"
       /\ \A i \in DOMAIN dispatchLog :
             dispatchLog[i].outcome = "pending"
             => i = Len(dispatchLog) /\ Len(fetchLog) = i
       /\ \A i \in DOMAIN fetchLog :
             fetchLog[i].outcome = "pending"
             => i = Len(fetchLog) /\ Len(dispatchLog) = i - 1

C15_Witness ==
    /\ route = "paginated"
    /\ pc = "done"
    /\ result.success
    /\ Len(fetchLog) = 1
    /\ Len(dispatchLog) = 1
    /\ dispatchLog[1].seq = 1
    /\ Len(dispatchLog[1].customers) = BATCH_SIZE
    /\ dispatchLog[1].outcome = "response"

\* C20: in the paginated action hasNextPage is reassigned from a field the
\* response does not have and the cursor stays null, so for every source,
\* whatever it reports as hasNextPage, a run with a credential makes exactly
\* one page fetch, from the start, and at most one POST, and then leaves
\* the loop.
C20_OnePageOnly ==
    route = "paginated"
    => /\ Len(fetchLog) <= 1
       /\ Len(dispatchLog) <= 1
       /\ cursor = NullCursor
       /\ \A i \in DOMAIN fetchLog : fetchLog[i].after = NullCursor
       /\ dispatchLog # <<>> => hasNextPage = JsUndefined
       /\ (pc = "done" /\ apiKey # "") => Len(fetchLog) = 1
       /\ (pc = "done" /\ result.success) => result.totalBatches = 1

C20_Witness ==
    /\ route = "paginated"
    /\ srcKind = "static"
    /\ custCount > BATCH_SIZE
    /\ pc = "done"
    /\ result.success
    /\ Len(fetchLog) = 1
    /\ fetchLog[1].more
    /\ Len(dispatchLog) = 1
    /\ result.totalBatches = 1

\* --------------------------------------------------- webhook, reference
\* whole minutes between updatedAt and now, rounded down, never below zero
RefElapsedMinutes(now, updatedAt) ==
    Max(0, CHOOSE m \in (0 - 4)..(MaxMinutes + 4) :
               /\ m * MsPerMinute <= now - updatedAt
               /\ now - updatedAt < (m + 1) * MsPerMinute)

HookDeliveryFailed == hook.outcome \in {"rejected", "networkError"}

\* C11: the abandonment decision is the reference rule: abandoned iff
\* completedAt is absent and max(0, whole minutes elapsed) >= threshold;
\* exactly 60 minutes is abandoned, 59 is not, and an updatedAt in the
\* future gives not abandoned and no error.
C11_DecisionIsReferenceRule ==
    hook.decision # "none"
    => /\ (hook.decision = "abandoned")
          <=> (/\ hook.completedAt = NullTs
               /\ hook.updatedAt # <<>>
               /\ RefElapsedMinutes(NowMs, hook.updatedAt[1])
                     >= ABANDONMENT_THRESHOLD_MINUTES)
       /\ (hook.updatedAt # <<>> /\ hook.updatedAt[1] > NowMs)
          => /\ hook.decision # "abandoned"
             /\ ~hook.errorLogged
             /\ hook.response = 200

C11_Witness ==
    /\ hook.completedAt = NullTs
    /\ hook.updatedAt = <<NowMs - ABANDONMENT_THRESHOLD_MINUTES * MsPerMinute>>
    /\ hook.minutesElapsed = <<ABANDONMENT_THRESHOLD_MINUTES>>
    /\ hook.decision = "abandoned"

\* C12: a checkout event whose completedAt is present is decided not
\* abandoned whatever the elapsed time, and no notification is sent for it.
C12_CompletedNeverNotified ==
    (hook.deliveries > 0 /\ hook.completedAt # NullTs)
    => /\ hook.decision = "completed"
       /\ hook.pc = "idle"
       /\ hook.sends = 0
       /\ hook.send = NoSend

C12_Witness ==
    /\ hook.completedAt # NullTs
    /\ hook.updatedAt = <<NowMs - MaxMinutes * MsPerMinute>>
    /\ hook.decision = "completed"
    /\ hook.sends = 0
    /\ hook.response = 200

\* C13: every delivery handed to the handler is acknowledged with a success
\* response whatever the notification step did (2xx, non-2xx, transport
\* error, skipped); a failed notification is reported as an error and the
\* acknowledgment is the same.
C13_AlwaysAcknowledged ==
    /\ hook.pc = "idle" => hook.acks = hook.deliveries
    /\ hook.pc # "idle" => hook.acks = hook.deliveries - 1
    /\ (hook.pc = "idle" /\ hook.deliveries > 0) => hook.response = 200
    /\ HookDeliveryFailed => hook.errorLogged /\ hook.response = 200

C13_Witness ==
    /\ hook.pc = "idle"
    /\ hook.outcome = "rejected"
    /\ hook.send.status = 500
    /\ hook.errorLogged
    /\ hook.response = 200
    /\ hook.acks = hook.deliveries

\* C14 as stated: an abandoned event of a tenant without credential is still
\* decided abandoned, no call to the sink is made, and what the caller
\* observes for the skip differs from what it observes for a delivery failure.
C14_SkipDistinctForCaller ==
    hook.outcome = "skipped"
    => /\ hook.decision = "abandoned"
       /\ hook.sends = 0
       /\ hook.response # AckStatus("rejected")
       /\ hook.response # AckStatus("networkError")

\* C14 amended: an abandoned event of a tenant without credential is still
\* decided abandoned and no call to the sink is made; the caller gets the same
\* success response as for a delivery failure, and the skip differs from a
\* failure only in what is logged (an informational line, no error).
C14_SkipOnlyLogged ==
    /\ hook.outcome = "skipped"
       => /\ hook.decision = "abandoned"
          /\ hook.sends = 0
          /\ hook.send = NoSend
          /\ hook.response = 200
          /\ hook.skipLogged
          /\ ~hook.errorLogged
    /\ HookDeliveryFailed
       => /\ hook.response = 200
          /\ hook.errorLogged
          /\ ~hook.skipLogged
    /\ (hook.decision = "abandoned" /\ hook.outcome \notin {"none", "lookupFailed"}
        /\ ~hook.keyInRow)
       => hook.outcome = "skipped"

C14_Witness ==
    /\ hook.outcome = "skipped"
    /\ hook.decision = "abandoned"
    /\ \E s \in SessionIds : sessions[s].apiKey = NullKey
    /\ hook.sends = 0
    /\ hook.response = 200
    /\ hook.skipLogged

\* C19: the handler keeps no state between deliveries: every delivery of an
\* abandoned-qualifying event with a credential present sends exactly one
\* notification whatever was delivered before, so n such deliveries give n
\* notifications.
C19_OneNotificationPerDelivery ==
    /\ hook.totalSends = hook.totalDue
    /\ hook.sends <= 1
    /\ (hook.decision = "abandoned" /\ hook.keyInRow) => hook.sends = 1
    /\ hook.sends = 1 => hook.send.minutesIdle = hook.minutesElapsed

C19_Witness ==
    /\ hook.pc = "idle"
    /\ hook.deliveries = 2
    /\ hook.totalSends = 2
    /\ hook.totalDue = 2
    /\ hook.outcome = "sent"

\* ------------------------------------------------------ concurrent runs
\* every dispatch of run r so far carries the key run r read at its lookup
CarriesLookedUpKey(r) ==
    \A i \in 1..Len(runs[r].dispatchLog) :
        /\ runs[r].dispatchLog[i].auth = runs[r].apiKey
        /\ runs[r].dispatchLog[i].auth \in Keys

\* the key of run r is read once: no step after the lookup changes it
KeyReadOnce(r) ==
    runs[r].pc # "lookup" => runs'[r].apiKey = runs[r].apiKey

\* C16: a run resolves its credential once, before its first fetch or
\* dispatch, and every dispatch of the run carries that same value, even when
\* a concurrent save sets or clears the stored credential during the run.
C16_CredentialFixedForRun ==
    /\ [](\A r \in RunIds :
            /\ runs[r].pc = "lookup"
               => runs[r].fetchLog = <<>> /\ runs[r].dispatchLog = <<>>
            /\ CarriesLookedUpKey(r))
    /\ [][\A r \in RunIds : KeyReadOnce(r)]_vars

\* the stored key was replaced after the lookup and before the dispatch
C16_Witness ==
    \E r \in RunIds :
        /\ runs[r].pc = "awaitDispatch"
        /\ Len(runs[r].dispatchLog) = 1
        /\ runs[r].dispatchLog[1].auth = "k1"
        /\ runs[r].dispatchLog[1].outcome = "pending"
        /\ sessions[runs[r].sid].apiKey \in {"k2", ""}

\* the first page of the shop of run r, which is what a run alone fetches
OwnPage(r) ==
    ShopPage(runs[r].shop, shopCount[runs[r].shop], NullCursor, BATCH_SIZE)

\* the calls and the result of run r are those of a run alone on the shop
\* and the key of run r
AsAlone(r) ==
    /\ \A i \in 1..Len(runs[r].fetchLog) :
          /\ runs[r].fetchLog[i].seq = i
          /\ runs[r].fetchLog[i].first = BATCH_SIZE
          /\ runs[r].fetchLog[i].after = NullCursor
          /\ runs[r].fetchLog[i].outcome = "page"
             => runs[r].fetchLog[i].rows = Len(OwnPage(r).records)
    /\ \A i \in 1..Len(runs[r].dispatchLog) :
          /\ runs[r].dispatchLog[i].seq = i
          /\ runs[r].dispatchLog[i].customers = OwnPage(r).records
          /\ runs[r].dispatchLog[i].auth = runs[r].apiKey
          /\ runs[r].dispatchLog[i].totalProcessed = i * Len(OwnPage(r).records)
    /\ runs[r].allCustomers = ConcatBatches(runs[r].dispatchLog)
    /\ runs[r].batchNumber = Len(runs[r].fetchLog)
    /\ (runs[r].pc = "done" /\ runs[r].result.success)
       => runs[r].result = PaginatedSuccess(ConcatBatches(runs[r].dispatchLog),
                                            Len(runs[r].fetchLog))
    /\ (runs[r].pc = "done" /\ ~runs[r].result.success)
       => runs[r].result.customers = <<>>

\* a step of one request leaves the locals of the other request alone
OneRunSteps ==
    \E r \in RunIds : \A q \in RunIds \ {r} : runs'[q] = runs[q]

\* C17: runs of different tenants share no mutable state: each of them makes
\* the same sequence of fetches and dispatches, and returns the same result,
\* as it does when it runs alone.
C17_TenantsIsolated ==
    /\ [](runs["r1"].sid # runs["r2"].sid => \A r \in RunIds : AsAlone(r))
    /\ [][runs["r1"].sid # runs["r2"].sid => OneRunSteps]_vars

\* two overlapping runs of two shops, each done with its own shop's customer
C17_Witness ==
    /\ runs["r1"].sid # runs["r2"].sid
    /\ \A r \in RunIds :
          /\ runs[r].pc = "done"
          /\ runs[r].result.success
          /\ runs[r].result.customers = <<<<runs[r].shop, 1>>>>
          /\ runs[r].dispatchLog[1].totalProcessed = 1
    /\ runs["r1"].apiKey # runs["r2"].apiKey

\* the customers handed to the sink by run r so far
Dispatched(r) ==
    { runs[r].dispatchLog[i].customers[j] :
        i \in 1..Len(runs[r].dispatchLog), j \in 1..Len(OwnPage(r).records) }

\* C18: nothing prevents two runs for the same tenant from overlapping: a
\* request whose shop has a key starts its run whatever the other request is
\* doing, and two runs for one tenant dispatch the same customer records, so
\* a record can reach the sink more than once.
C18_SameTenantOverlap ==
    /\ \A r \in RunIds :
          (runs[r].pc = "lookup" /\ HasApiKey(ApiKeyOf(sessions[runs[r].sid])))
          => ENABLED CLookupFound(r)
    /\ (/\ runs["r1"].sid = runs["r2"].sid
        /\ runs["r1"].dispatchLog # <<>>
        /\ runs["r2"].dispatchLog # <<>>)
       => /\ Dispatched("r1") = Dispatched("r2")
          /\ Dispatched("r1") = { <<runs["r1"].shop, c>> :
                                    c \in 1..shopCount[runs["r1"].shop] }

\* both runs of one shop are waiting for the sink with the same customer
C18_Witness ==
    /\ runs["r1"].sid = runs["r2"].sid
    /\ \A r \in RunIds :
          /\ runs[r].pc = "awaitDispatch"
          /\ runs[r].dispatchLog[1].outcome = "pending"
          /\ <<runs[r].shop, 1>> \in Dispatched(r)

\* --------------------------------------------------- saving the API key
\* the step is the answer of the validating action to its request
SaveAnswers == save.pc = "validating" /\ save'.pc = "done"

\* C21: in the validating save_api_key action the stored credential changes
\* only when the validation call answered with status 200, and then to the
\* submitted key in the request's own session row; when validation answers
\* any other status or fails at transport level the table is left unchanged
\* and the action returns an error result.
C21_StoredOnlyWhenValidated ==
    /\ [][save' # save =>
            /\ sessions' # sessions
               => /\ SaveAnswers
                  /\ save'.outcome = "response"
                  /\ save'.status = 200
                  /\ sessions' = UpdateApiKey(sessions, save.sid, save.apiKey)
            /\ (SaveAnswers /\ save'.status # 200)
               => /\ sessions' = sessions
                  /\ save'.result.status = "error"
                  /\ ~save'.result.isConnected]_vars
    /\ [](save.pc = "done"
            => /\ save.result.status \in {"success", "error"}
               /\ save.result.status = "success" => save.status = 200)

\* the validation answered 404: the key submitted was not stored
C21_Witness ==
    /\ save.pc = "done"
    /\ save.status = 404
    /\ save.apiKey = "k1"
    /\ save.result = SaveError("Invalid API key")
    /\ sessions[save.sid].apiKey = NullKey
    /\ lastSaved[sessions[save.sid].shop] = NoSave

\* the keys the abandoned-checkout handler may resolve for a shop
HandlerKeys(shop) ==
    { ApiKeyOf(sessions[s]) : s \in FindFirstByShop(sessions, shop) }

\* the keys the sync action resolves for the requests of a shop's sessions
SyncKeys(shop) ==
    { ApiKeyOf(FindUniqueById(sessions, s)) : s \in FindFirstByShop(sessions, shop) }

\* C22: a tenant has one credential as seen by every consumer: once a save
\* has been executed for a shop, the key the abandoned-checkout handler
\* resolves for the shop (first session row matching the shop) equals the key
\* the sync action resolves for it (the row of the request's session id),
\* which is the value last stored by a save; so after a save that stored a
\* key the handler never finds the credential absent.
C22_OneCredentialPerTenant ==
    \A sh \in Shops :
        lastSaved[sh] # NoSave
        => /\ HandlerKeys(sh) = {lastSaved[sh].apiKey}
           /\ SyncKeys(sh) = {lastSaved[sh].apiKey}
           /\ HasApiKey(lastSaved[sh].apiKey)
              => \A k \in HandlerKeys(sh) : HasApiKey(k)

====
